---------------------------- MODULE Spec2Model ----------------------------
(***************************************************************************)
(* Model of lib/monomers.js: the Monomers engine.  One engine instance     *)
(* parses a root document, follows its HTML imports through a loader,      *)
(* extracts element/module metadata from scripts, and metadataTree()       *)
(* assembles the import tree.                                              *)
(*                                                                         *)
(* Promises are modelled by their state (pending / ok / err); a loader     *)
(* request completes in one action, which runs the `then` callback of the  *)
(* request and every promise reaction that follows from it (Settle).       *)
(* The callbacks of _metadataTree are one action each per tree task.       *)
(***************************************************************************)
EXTENDS Integers, Sequences, FiniteSets, TLC

(* ------------------------------ bounds --------------------------------- *)
\* longest import-link list of the root document in the link worlds
MaxLinks == 2
\* longest import-link list of the root document in the chain worlds
MaxChain == 3
\* most loader requests that fail in one run
MaxFail == 1
\* longest dom-module list of the root document in the template worlds
MaxTemplates == 2

(* ------------------------------ inputs --------------------------------- *)
Root == "A"
Addrs == {"A", "B", "C"}
NoHref == "nohref"
\* what an import link's href attribute can hold; "./B" is a second
\* spelling of address B, NoHref is a link without the attribute
LinkUrls == {"A", "B", "C", "./B", NoHref}
NoSrc == "nosrc"
Undefined == "undefined"
EMPTY == "EMPTY_METADATA"
PH == "{}"

SeqsUpTo(S, n) == UNION {[1..k -> S] : k \in 0..n}

\* url.resolve(href, linkurl) for the addresses of the model: all documents
\* live in one directory, so "./B" and "B" name the same document
urlResolve(href, linkurl) ==
    IF linkurl = "./B" THEN "B" ELSE linkurl

\* what jsParse makes of a script body: it throws, or returns an object
\* whose elements / modules lists may be absent
Js(throws, hasE, es, hasM, ms) ==
    [throws |-> throws, hasElements |-> hasE, elements |-> es,
     hasModules |-> hasM, modules |-> ms]
JsElems(es) == Js(FALSE, TRUE, es, TRUE, <<>>)
JsBad == Js(TRUE, FALSE, <<>>, FALSE, <<>>)
JsBare == Js(FALSE, FALSE, <<>>, FALSE, <<>>)
JsMods(ms) == Js(FALSE, TRUE, <<>>, TRUE, ms)

\* a script node: its src attribute (NoSrc for an inline script) and the
\* parse result of its body (of the fetched content for an external one)
Script(src, js) == [src |-> src, js |-> js]
ScriptKinds ==
    { Script(NoSrc, JsElems(<<"e1">>)),
      Script(NoSrc, JsElems(<<"e2", "e1">>)),
      Script(NoSrc, JsMods(<<"m1">>)),
      Script(NoSrc, JsBad),
      Script(NoSrc, JsBare),
      Script("S1", JsElems(<<"e1">>)),
      Script("S2", JsElems(<<"e2">>)) }

\* what importParse makes of a document: whether it parses, its import
\* links, its script nodes, and the id attributes of its dom-module nodes
Doc(ok, links, scripts) ==
    [ok |-> ok, links |-> links, scripts |-> scripts, templates |-> <<>>]
WithTemplates(doc, ids) == [doc EXCEPT !.templates = ids]
\* NoId is a dom-module without an id attribute
NoId == "noid"
TemplateIds == {"e1", "e2", NoId}
World(loader, a, b, c) ==
    [loader |-> loader, doc |-> [d \in Addrs |->
        IF d = "A" THEN a ELSE IF d = "B" THEN b ELSE c]]

\* script profiles of the import-graph worlds: no scripts anywhere, one
\* inline script per document with an element of its own, the same with
\* document B malformed, and the same with document C's script external
OwnScript(d) == <<Script(NoSrc, JsElems(<<d>>))>>
Profile(p, d, links) ==
    CASE p = "bare" -> Doc(TRUE, links, <<>>)
      [] p = "own" -> Doc(TRUE, links, OwnScript(d))
      [] p = "badB" -> Doc(d # "B", links, OwnScript(d))
      [] OTHER -> Doc(TRUE, links,
                      IF d = "C" THEN <<Script("S1", JsElems(<<d>>))>>
                      ELSE OwnScript(d))
Profiles == {"bare", "own", "badB", "extC"}
LinkWorlds ==
    { World(l, Profile(p, "A", la), Profile(p, "B", lb), Profile(p, "C", <<>>)) :
        l \in BOOLEAN, p \in Profiles,
        la \in SeqsUpTo(LinkUrls, MaxLinks),
        lb \in {<<>>, <<"A">>, <<"C">>} }

\* script worlds: at most two scripts over documents A and B, under three
\* import shapes
ScriptLists ==
    { sl \in SeqsUpTo(ScriptKinds, 2) \X SeqsUpTo(ScriptKinds, 2) :
        Len(sl[1]) + Len(sl[2]) <= 2 }
ScriptWorlds ==
    { World(l, Doc(TRUE, la, sl[1]), Doc(TRUE, <<>>, sl[2]), Doc(TRUE, <<>>, <<>>)) :
        l \in BOOLEAN, la \in {<<>>, <<"B">>, <<"B", "./B">>}, sl \in ScriptLists }

\* template worlds: root A imports B, both carry dom-module nodes; the
\* scripts define elements named like some of the templates, of their own
\* document or of the other
TemplateWorlds ==
    { World(TRUE,
            WithTemplates(Doc(TRUE, <<"B">>, <<sa>>), ta),
            WithTemplates(Doc(TRUE, <<>>, sb), tb),
            Doc(TRUE, <<>>, <<>>)) :
        sa \in { Script(NoSrc, JsElems(<<"e1">>)),
                 Script(NoSrc, JsElems(<<"e2", "e1">>)),
                 Script(NoSrc, JsBare),
                 Script("S1", JsElems(<<"e1">>)) },
        sb \in { <<>>, <<Script("S2", JsElems(<<"e2">>))>>,
                 <<Script(NoSrc, JsElems(<<"e1">>))>> },
        ta \in SeqsUpTo(TemplateIds, MaxTemplates),
        tb \in { <<>>, <<"e1">>, <<"e2">> } }

\* chain worlds: the root declares three or more import links over the
\* addresses B and C, so that an address can recur between two others
ChainUrls == {"B", "./B", "C"}
ChainWorlds ==
    { World(TRUE, Profile("own", "A", la), Profile("own", "B", lb),
            Profile("own", "C", <<>>)) :
        la \in UNION {[1..k -> ChainUrls] : k \in 3..MaxChain},
        lb \in {<<>>, <<"C">>} }

Worlds == LinkWorlds \cup ScriptWorlds \cup TemplateWorlds \cup ChainWorlds

\* the worlds of the fair specification: a loader, import graphs over B
\* and C under the root (with and without a cycle through B), a malformed
\* document or an external script, the script worlds, and the template
\* worlds with at most one dom-module in the root
LiveWorlds ==
    { World(TRUE, Profile(p, "A", la), Profile(p, "B", lb), Profile(p, "C", <<>>)) :
        p \in {"badB", "extC"},
        la \in SeqsUpTo(ChainUrls, MaxLinks),
        lb \in {<<>>, <<"A">>, <<"C">>} }
    \cup {w \in ScriptWorlds : w.loader}
    \cup {w \in TemplateWorlds : Len(w.doc[Root].templates) <= 1}

\* the longest import-link list of any world
MaxRootLinks == IF MaxChain > MaxLinks THEN MaxChain ELSE MaxLinks

(* ------------------------------ state ---------------------------------- *)
VARIABLES
    world,      \* the documents behind the loader, and whether a loader is set
    html,       \* this.html: the addresses that have an HTMLMonomer
    node,       \* the promises of each HTMLMonomer
    elements,   \* this.elements: name -> the script that registered it
    modules,    \* this.modules
    sfetch,     \* loader requests for external scripts still in flight
    parses,     \* history: times importParse ran, per address
    requests,   \* history: times loader.request ran for a document address
    failures,   \* history: every failure raised so far
    nfail,      \* loader requests that have failed
    ctor,       \* "ok", or "threw" when the constructor threw
    last,       \* history: the script processings of the last handler
    called,     \* metadataTree() has been called
    loadedHrefs,\* the visited set of the current metadataTree() call
    task,       \* the _metadataTree invocations of the call
    heap,       \* the metadata objects: imports, href, html fields
    domModule   \* element.domModule of the element objects that have one

vars == <<world, html, node, elements, modules, sfetch, parses, requests,
          failures, nfail, ctor, last, called, loadedHrefs, task, heap,
          domModule>>


(* ----------------------------- promises -------------------------------- *)
NoErr == [kind |-> "none", at |-> "-"]
Err(kind, at) == [kind |-> kind, at |-> at]
Pending == [st |-> "pending", obj |-> "-", err |-> NoErr]
Ok(obj) == [st |-> "ok", obj |-> obj, err |-> NoErr]
Rejected(e) == [st |-> "err", obj |-> "-", err |-> e]

\* the promise of one script: its value is the script's parse result
SFetching == [st |-> "pending", val |-> JsBare, err |-> NoErr]
SOk(v) == [st |-> "ok", val |-> v, err |-> NoErr]
SErr(e) == [st |-> "err", val |-> JsBare, err |-> e]

\* the promise `dep` of one import link: the request is in flight, or its
\* callback returned the target's depsLoaded (adopt), or it was rejected
LFetching == [st |-> "fetch", err |-> NoErr]
LAdopt == [st |-> "adopt", err |-> NoErr]
LErr(e) == [st |-> "err", err |-> e]

NoNode ==
    [inst |-> 0, depHrefs |-> <<>>, link |-> <<>>, script |-> <<>>,
     metadataLoaded |-> Pending, depsLoaded |-> Pending]

EmptyReg == [n \in {} |-> [doc |-> "-", idx |-> 0]]

\* the engine's fields and the history, as one value the handlers
\* transform; `last` starts empty in every handler
Cur ==
    [html |-> html, node |-> node, elements |-> elements, modules |-> modules,
     sfetch |-> sfetch, parses |-> parses, requests |-> requests,
     failures |-> failures, last |-> <<>>]

Raise(s, e) == [s EXCEPT !.failures = @ \cup {e}]

(* --------------------------- _processScript ---------------------------- *)
\* whether the forEach callback over parsedJs.elements / parsedJs.modules
\* is bound to the engine (`.bind(this)`); unbound, `this` is undefined in
\* strict mode and reading this.modules throws a TypeError
ElementsCallbackBound == TRUE
ModulesCallbackBound == FALSE

\* faulty variant: registration that overwrites an entry instead of failing
RECURSIVE RegisterAllOverwrite(_, _, _, _, _, _)
RegisterAllOverwrite(reg, names, i, by, bound, kind) ==
    IF i > Len(names) THEN [reg |-> reg, err |-> NoErr]
    ELSE IF ~bound THEN [reg |-> reg, err |-> Err("TypeError", "this")]
    ELSE RegisterAllOverwrite(
             [n \in DOMAIN reg \cup {names[i]} |->
                 IF n = names[i] THEN by ELSE reg[n]],
             names, i + 1, by, bound, kind)

RECURSIVE RegisterAll(_, _, _, _, _, _)
RegisterAll(reg, names, i, by, bound, kind) ==
    IF i > Len(names) THEN [reg |-> reg, err |-> NoErr]
    ELSE IF ~bound THEN [reg |-> reg, err |-> Err("TypeError", "this")]
    ELSE IF names[i] \in DOMAIN reg
         THEN [reg |-> reg, err |-> Err(kind, names[i])]
    ELSE RegisterAll((names[i] :> by) @@ reg, names, i + 1, by, bound, kind)

\* the inline branch: jsParse, then registration of elements, then modules
ProcessInline(s, d, j, js) ==
    LET by == [doc |-> d, idx |-> j]
        re == IF js.hasElements
              THEN RegisterAll(s.elements, js.elements, 1, by,
                               ElementsCallbackBound, "DuplicateElement")
              ELSE [reg |-> s.elements, err |-> NoErr]
        rm == IF re.err = NoErr /\ js.hasModules
              THEN RegisterAll(s.modules, js.modules, 1, by,
                               ModulesCallbackBound, "DuplicateModule")
              ELSE [reg |-> s.modules, err |-> NoErr]
        e == IF js.throws THEN Err("ScriptParse", d)
             ELSE IF re.err # NoErr THEN re.err ELSE rm.err
        s1 == IF js.throws THEN s
              ELSE [s EXCEPT !.elements = re.reg, !.modules = rm.reg]
        ev == [doc |-> d, idx |-> j, js |-> js, err |-> e,
               elementsBefore |-> s.elements, elementsAfter |-> s1.elements,
               modulesBefore |-> s.modules, modulesAfter |-> s1.modules]
        s2 == [s1 EXCEPT !.last = Append(@, ev)]
    IN  [s |-> IF e = NoErr THEN s2 ELSE Raise(s2, e), err |-> e,
         p |-> IF e = NoErr THEN SOk(js) ELSE SErr(e)]

\* faulty variant: without a loader the external script is processed as if
\* its content were at hand
NoLoaderScriptProcessed(s, d, j, script) == ProcessInline(s, d, j, script.js)

\* lines 194-196: an external script without a loader is
\* Promise.resolve(EMPTY_METADATA), whose lists are both present and empty
NoLoaderScript(s, d, j, script) ==
    [s |-> s, err |-> NoErr, p |-> SOk(JsElems(<<>>))]

\* one script node of document d, parse instance inst: `err` is what the
\* call throws synchronously, `p` the value or promise it returns
ProcessScript(s, d, j, inst, script) ==
    IF script.src = NoSrc THEN ProcessInline(s, d, j, script.js)
    ELSE IF world.loader
    THEN [s |-> [s EXCEPT !.sfetch = @ \cup
                    {[doc |-> d, idx |-> j, inst |-> inst,
                      src |-> urlResolve(d, script.src)]}],
          err |-> NoErr, p |-> SFetching]
    ELSE NoLoaderScript(s, d, j, script)

\* _processScripts: the forEach over the script nodes stops at the first
\* script whose processing throws
RECURSIVE ProcessScripts(_, _, _, _, _, _)
ProcessScripts(s, d, inst, scripts, j, ps) ==
    IF j > Len(scripts) THEN [s |-> s, err |-> NoErr, ps |-> ps]
    ELSE LET r == ProcessScript(s, d, j, inst, scripts[j])
         IN  IF r.err # NoErr THEN [s |-> r.s, err |-> r.err, ps |-> ps]
             ELSE ProcessScripts(r.s, d, inst, scripts, j + 1, Append(ps, r.p))

(* ----------------------------- _parseHTML ------------------------------ *)
\* the hrefs of the import links that carry one, resolved, in link order
RECURSIVE DepHrefs(_, _, _)
DepHrefs(d, links, i) ==
    IF i > Len(links) THEN <<>>
    ELSE IF links[i] = NoHref THEN DepHrefs(d, links, i + 1)
    ELSE <<urlResolve(d, links[i])>> \o DepHrefs(d, links, i + 1)

RECURSIVE CountRequests(_, _, _)
CountRequests(req, hrefs, i) ==
    IF i > Len(hrefs) THEN req
    ELSE CountRequests([req EXCEPT ![hrefs[i]] = @ + 1], hrefs, i + 1)

\* faulty variant: the import links are walked whether or not a loader is set
WalkedHrefsAlways(d, links) == DepHrefs(d, links, 1)

\* lines 126-138: depHrefs is filled only when a loader is configured
WalkedHrefs(d, links) == IF world.loader THEN DepHrefs(d, links, 1) ELSE <<>>

\* whether a resolve of an address that has a node returns that node
\* (lines 106-108)
Memoized(s, d) == d \in s.html

\* _parseHTML(content of d, d): `err` is what it throws; on success the
\* node of d is registered (or was already)
ParseHTML(s, d) ==
    IF Memoized(s, d) THEN [s |-> s, err |-> NoErr]
    ELSE
    LET inst == s.parses[d] + 1
        s0 == [s EXCEPT !.parses[d] = inst]
        doc == world.doc[d]
    IN  IF ~doc.ok
        THEN [s |-> Raise(s0, Err("DocParse", d)), err |-> Err("DocParse", d)]
        ELSE
        LET r == ProcessScripts(s0, d, inst, doc.scripts, 1, <<>>)
            hrefs == WalkedHrefs(d, doc.links)
            n == [inst |-> inst, depHrefs |-> hrefs,
                  link |-> [i \in 1..Len(hrefs) |-> LFetching],
                  script |-> r.ps,
                  metadataLoaded |-> Pending, depsLoaded |-> Pending]
        IN  IF r.err # NoErr THEN [s |-> r.s, err |-> r.err]
            ELSE [s |-> [r.s EXCEPT !.html = @ \cup {d}, !.node[d] = n,
                                   !.requests = CountRequests(@, hrefs, 1)],
                  err |-> NoErr]

(* ------------------------- promise reactions --------------------------- *)
\* faulty variant: a link whose request is still in flight counts as resolved
LinkStateNoWait(s, d, i) ==
    LET l == s.node[d].link[i]
    IN  IF l.st = "fetch" THEN Ok("-")
        ELSE IF l.st = "err" THEN Rejected(l.err)
        ELSE s.node[s.node[d].depHrefs[i]].depsLoaded

\* the state of link i's promise of document d
LinkState(s, d, i) ==
    LET l == s.node[d].link[i]
    IN  IF l.st = "fetch" THEN Pending
        ELSE IF l.st = "err" THEN Rejected(l.err)
        ELSE s.node[s.node[d].depHrefs[i]].depsLoaded

\* reduceMetadata(m1, m2): Array.prototype.concat appends its argument as
\* one entry when it is not an array, so an absent list adds `undefined`
reduceMetadata(m1, m2) ==
    [elements |-> m1.elements \o
                  (IF m2.hasElements THEN m2.elements ELSE <<Undefined>>),
     modules |-> m1.modules \o
                 (IF m2.hasModules THEN m2.modules ELSE <<Undefined>>)]

EMPTY_METADATA == [elements |-> <<>>, modules |-> <<>>]

\* metadataList.reduce(reduceMetadata, EMPTY_METADATA) over the script
\* values ps[1..k]
RECURSIVE ReduceList(_, _)
ReduceList(ps, k) ==
    IF k = 0 THEN EMPTY_METADATA
    ELSE reduceMetadata(ReduceList(ps, k - 1), ps[k].val)

\* Promise.all(scriptPromises).then(reduce): the object metadataLoaded
\* resolves to is EMPTY_METADATA itself when the list is empty (reduce
\* returns its initial value), and a new object otherwise
MetadataObject(d) == IF Len(world.doc[d].scripts) = 0 THEN EMPTY ELSE d

SettleMetadata(s, d) ==
    LET n == s.node[d]
        bad == {j \in 1..Len(n.script) : n.script[j].st = "err"}
    IN  IF d \notin s.html \/ n.metadataLoaded.st # "pending" THEN n.metadataLoaded
        ELSE IF bad # {} THEN Rejected(n.script[CHOOSE j \in bad : TRUE].err)
        ELSE IF \A j \in 1..Len(n.script) : n.script[j].st = "ok"
             THEN Ok(MetadataObject(d))
        ELSE Pending

\* faulty variant: depsLoaded that resolves although a dependency was rejected
SettleDepsSwallow(s, d) ==
    LET n == s.node[d]
    IN  IF d \notin s.html \/ n.depsLoaded.st # "pending" THEN n.depsLoaded
        ELSE IF n.metadataLoaded.st = "err" THEN Rejected(n.metadataLoaded.err)
        ELSE IF n.metadataLoaded.st = "ok"
                /\ \A i \in 1..Len(n.link) : LinkState(s, d, i).st # "pending"
             THEN Ok("-")
        ELSE Pending

\* faulty variant: depsLoaded that resolves with the metadata, without
\* waiting for the import links
SettleDepsEarly(s, d) ==
    LET n == s.node[d]
    IN  IF d \notin s.html \/ n.depsLoaded.st # "pending" THEN n.depsLoaded
        ELSE IF n.metadataLoaded.st = "err" THEN Rejected(n.metadataLoaded.err)
        ELSE IF n.metadataLoaded.st = "ok" THEN Ok("-")
        ELSE Pending

\* Promise.all([metadataLoaded, dep...]).then(-> depHrefs)
SettleDeps(s, d) ==
    LET n == s.node[d]
        bad == {i \in 1..Len(n.link) : LinkState(s, d, i).st = "err"}
    IN  IF d \notin s.html \/ n.depsLoaded.st # "pending" THEN n.depsLoaded
        ELSE IF n.metadataLoaded.st = "err" THEN Rejected(n.metadataLoaded.err)
        ELSE IF bad # {} THEN Rejected(LinkState(s, d, CHOOSE i \in bad : TRUE).err)
        ELSE IF n.metadataLoaded.st = "ok"
                /\ \A i \in 1..Len(n.link) : LinkState(s, d, i).st = "ok"
             THEN Ok("-")
        ELSE Pending

\* one round of reactions of the depsLoaded promises
SettleRound(s) ==
    [s EXCEPT !.node = [d \in Addrs |->
        [s.node[d] EXCEPT !.depsLoaded = SettleDeps(s, d)]]]

RECURSIVE SettleAll(_, _)
SettleAll(s, k) ==
    IF k = 0 THEN s
    ELSE CHOOSE r \in {SettleAll(t, k - 1) : t \in {SettleRound(s)}} : TRUE

\* every promise reaction that follows from one handler: a rejection or a
\* resolution travels up at most one import link per round
Settle(s) ==
    CHOOSE r \in
        {SettleAll(t, Cardinality(Addrs)) : t \in
            {[s EXCEPT !.node = [d \in Addrs |->
                [s.node[d] EXCEPT !.metadataLoaded = SettleMetadata(s, d)]]]}} : TRUE

(* ------------------------------ the tree ------------------------------- *)
\* one _metadataTree invocation per task: "root" is the call made by
\* metadataTree(), task d the call made when address d is marked loaded
TaskIds == {"root"} \cup Addrs
TaskDoc(t) == IF t = "root" THEN Root ELSE t
NoTask ==
    [pc |-> "none", pred |-> "-", kids |-> <<>>, obj |-> "-", err |-> NoErr]

Objs == {EMPTY} \cup Addrs
NoFields == [hasImports |-> FALSE, imports |-> <<>>, href |-> "-", html |-> "-"]

\* faulty variant: the rejection of a subtree build is not passed on
EntryStateStalled(tk, e) ==
    IF e = "-" \/ e = PH THEN Ok(e)
    ELSE IF tk[e].pc = "done" THEN Ok(tk[e].obj)
    ELSE Pending

\* the state of an entry of depMetadata: a placeholder promise, or the
\* promise of a task
EntryState(tk, e) ==
    IF e = "-" \/ e = PH THEN Ok(e)
    ELSE IF tk[e].pc = "done" THEN Ok(tk[e].obj)
    ELSE IF tk[e].pc = "failed" THEN Rejected(tk[e].err)
    ELSE Pending

\* where metadataTree() starts the visited set (line 204: {})
InitialLoaded == {}

\* whether the forEach of lines 212-226 recurses into href
Unvisited(loaded, href) == href \notin loaded

\* the promise a new subtree build is chained after (lines 215-218): the
\* last entry of depMetadata, whatever it is
ChainAfter(dm) == IF Len(dm) > 0 THEN dm[Len(dm)] ELSE "-"

\* the forEach over hrefs: marks addresses loaded, queues a task for each
\* newly marked address and pushes a placeholder for the others
RECURSIVE ForEachHref(_, _, _, _, _)
ForEachHref(hrefs, i, loaded, tk, dm) ==
    IF i > Len(hrefs) THEN [loaded |-> loaded, task |-> tk, depMetadata |-> dm]
    ELSE LET h == hrefs[i]
         IN  IF Unvisited(loaded, h)
             THEN ForEachHref(hrefs, i + 1, loaded \cup {h},
                      [tk EXCEPT ![h] = [NoTask EXCEPT !.pc = "queued",
                                                       !.pred = ChainAfter(dm)]],
                      Append(dm, h))
             ELSE ForEachHref(hrefs, i + 1, loaded, tk, Append(dm, PH))

\* faulty variant: a node assembled without its href
AssembleNodeNoHref(fields, importMetadata, href) ==
    [fields EXCEPT !.hasImports = TRUE, !.imports = importMetadata]

\* lines 228-229: metadata.imports = importMetadata; metadata.href = href
AssembleNode(fields, importMetadata, href) ==
    [fields EXCEPT !.hasImports = TRUE, !.imports = importMetadata, !.href = href]

\* the value of an entry of depMetadata once resolved
EntryValue(tk, e) == IF e = PH THEN PH ELSE tk[e].obj

\* the entries of metadata.elements of metadata object o, each an element
\* object (script, position, name) or the `undefined` that concat appended
\* for a script without an elements list
UndefinedElement(o, j) == [doc |-> o, idx |-> j, pos |-> 0, is |-> Undefined]
RECURSIVE ElementList(_, _, _)
ElementList(o, ps, k) ==
    IF k = 0 THEN <<>>
    ELSE ElementList(o, ps, k - 1) \o
         (IF ps[k].val.hasElements
          THEN [i \in 1..Len(ps[k].val.elements) |->
                   [doc |-> o, idx |-> k, pos |-> i, is |-> ps[k].val.elements[i]]]
          ELSE <<UndefinedElement(o, k)>>)

NoBinding == [e \in {} |-> [doc |-> "-", idx |-> 0]]

\* faulty variant: the scan binds the first dom-module whatever its id
RECURSIVE attachDomModuleAny(_, _, _, _)
attachDomModuleAny(dm, d, el, i) ==
    IF i > Len(world.doc[d].templates) THEN [dm |-> dm, err |-> NoErr]
    ELSE IF el.is = Undefined THEN [dm |-> dm, err |-> Err("TypeError", "element")]
    ELSE [dm |-> [x \in DOMAIN dm \cup {el} |->
                     IF x = el THEN [doc |-> d, idx |-> i] ELSE dm[x]],
          err |-> NoErr]

\* attachDomModule(parsedImport of d, element), from dom-module i on:
\* reading element.is of `undefined` throws a TypeError
RECURSIVE attachDomModule(_, _, _, _)
attachDomModule(dm, d, el, i) ==
    IF i > Len(world.doc[d].templates) THEN [dm |-> dm, err |-> NoErr]
    ELSE IF el.is = Undefined THEN [dm |-> dm, err |-> Err("TypeError", "element")]
    ELSE IF world.doc[d].templates[i] = el.is
         THEN [dm |-> [x \in DOMAIN dm \cup {el} |->
                          IF x = el THEN [doc |-> d, idx |-> i] ELSE dm[x]],
               err |-> NoErr]
    ELSE attachDomModule(dm, d, el, i + 1)

\* lines 232-236: metadata.elements.forEach(attachDomModule), which stops
\* at the first element whose scan throws
RECURSIVE AttachAll(_, _, _, _)
AttachAll(dm, d, els, k) ==
    IF k > Len(els) THEN [dm |-> dm, err |-> NoErr]
    ELSE LET r == attachDomModule(dm, d, els[k], 1)
         IN  IF r.err # NoErr THEN r ELSE AttachAll(r.dm, d, els, k + 1)

\* metadata.elements of the object a task holds
ElementsOf(o) ==
    IF o = EMPTY THEN <<>> ELSE ElementList(o, node[o].script, Len(node[o].script))

(* ------------------------------ actions -------------------------------- *)
Commit(s) ==
    /\ html' = s.html
    /\ node' = s.node
    /\ elements' = s.elements
    /\ modules' = s.modules
    /\ sfetch' = s.sfetch
    /\ parses' = s.parses
    /\ requests' = s.requests
    /\ failures' = s.failures
    /\ last' = s.last

\* new Monomers(htmlImport, attachAST, href, loader): the state after the
\* constructor ran _parseHTML on the root
InitIn(W) ==
    /\ world \in W
    /\ \E r \in {ParseHTML([html |-> {}, node |-> [d \in Addrs |-> NoNode],
                            elements |-> EmptyReg, modules |-> EmptyReg,
                            sfetch |-> {}, parses |-> [d \in Addrs |-> 0],
                            requests |-> [d \in Addrs |-> 0],
                            failures |-> {}, last |-> <<>>], Root)} :
         \E s \in {Settle(r.s)} :
           /\ html = s.html
           /\ node = s.node
           /\ elements = s.elements
           /\ modules = s.modules
           /\ sfetch = s.sfetch
           /\ parses = s.parses
           /\ requests = s.requests
           /\ failures = s.failures
           /\ last = s.last
           /\ ctor = IF r.err = NoErr THEN "ok" ELSE "threw"
    /\ nfail = 0
    /\ called = FALSE
    /\ loadedHrefs = {}
    /\ task = [t \in TaskIds |-> NoTask]
    /\ heap = [o \in Objs |-> NoFields]
    /\ domModule = NoBinding

Init == InitIn(Worlds)

TreeUnchanged ==
    UNCHANGED <<world, ctor, called, loadedHrefs, task, heap, domModule>>

\* the loader settles the request of import link i of document d; on
\* success the callback of line 133 parses the target
FetchDoc(d, i, succeed) ==
    /\ d \in html
    /\ i \in 1..Len(node[d].link)
    /\ node[d].link[i].st = "fetch"
    /\ IF succeed
       THEN /\ \E r \in {ParseHTML(Cur, node[d].depHrefs[i])} :
                 \E s \in {Settle([r.s EXCEPT !.node[d].link[i] =
                              IF r.err = NoErr THEN LAdopt ELSE LErr(r.err)])} :
                     Commit(s)
            /\ nfail' = nfail
       ELSE /\ nfail < MaxFail
            /\ \E e \in {Err("Loader", node[d].depHrefs[i])} :
                 \E s \in {Settle([Raise(Cur, e) EXCEPT !.node[d].link[i] = LErr(e)])} :
                     Commit(s)
            /\ nfail' = nfail + 1
    /\ TreeUnchanged

\* the promise of script f.idx of document f.doc is observed only when the
\* parse that issued the request registered the document's node
Current(f) == f.doc \in html /\ node[f.doc].inst = f.inst

\* the loader settles the request of an external script; on success the
\* callback of lines 188-192 processes the content as an inline script
FetchScript(f, succeed) ==
    /\ f \in sfetch
    /\ IF succeed
       THEN /\ \E r \in {ProcessInline([Cur EXCEPT !.sfetch = @ \ {f}], f.doc, f.idx,
                                       world.doc[f.doc].scripts[f.idx].js)} :
                 \E s \in {Settle(IF Current(f)
                                  THEN [r.s EXCEPT !.node[f.doc].script[f.idx] = r.p]
                                  ELSE r.s)} :
                     Commit(s)
            /\ nfail' = nfail
       ELSE /\ nfail < MaxFail
            /\ \E r \in {Raise([Cur EXCEPT !.sfetch = @ \ {f}], Err("Loader", f.src))} :
                 \E s \in {Settle(IF Current(f)
                                  THEN [r EXCEPT !.node[f.doc].script[f.idx] =
                                            SErr(Err("Loader", f.src))]
                                  ELSE r)} :
                     Commit(s)
            /\ nfail' = nfail + 1
    /\ TreeUnchanged

EngineUnchanged ==
    UNCHANGED <<world, html, node, elements, modules, sfetch, parses, requests,
                nfail, ctor, last>>

\* metadataTree(): _metadataTree(this.root, {})
MetadataTree ==
    /\ ctor = "ok"
    /\ ~called
    /\ called' = TRUE
    /\ loadedHrefs' = InitialLoaded
    /\ task' = [task EXCEPT !["root"].pc = "meta"]
    /\ UNCHANGED <<heap, failures, domModule>>
    /\ EngineUnchanged

\* line 219-221: the callback chained after the previous entry calls
\* _metadataTree(this.html[href], loadedHrefs)
TaskStart(t) ==
    /\ task[t].pc = "queued"
    /\ LET p == EntryState(task, task[t].pred)
           e == Err("TypeError", "htmlMonomer")
       IN  /\ p.st # "pending"
           /\ IF p.st = "err"
              THEN /\ task' = [task EXCEPT ![t].pc = "failed", ![t].err = p.err]
                   /\ failures' = failures
              ELSE IF TaskDoc(t) \in html
              THEN /\ task' = [task EXCEPT ![t].pc = "meta"]
                   /\ failures' = failures
              ELSE /\ task' = [task EXCEPT ![t].pc = "failed", ![t].err = e]
                   /\ failures' = failures \cup {e}
    /\ UNCHANGED <<loadedHrefs, heap, called, domModule>>
    /\ EngineUnchanged

\* line 209: htmlMonomer.metadataLoaded.then
TaskMetadata(t) ==
    /\ task[t].pc = "meta"
    /\ LET p == node[TaskDoc(t)].metadataLoaded
       IN  /\ p.st # "pending"
           /\ task' = IF p.st = "ok"
                      THEN [task EXCEPT ![t].pc = "deps", ![t].obj = p.obj]
                      ELSE [task EXCEPT ![t].pc = "failed", ![t].err = p.err]
    /\ UNCHANGED <<loadedHrefs, heap, called, failures, domModule>>
    /\ EngineUnchanged

\* lines 210-226: htmlMonomer.depsLoaded.then and the forEach over hrefs
TaskDeps(t) ==
    /\ task[t].pc = "deps"
    /\ LET n == node[TaskDoc(t)]
           r == ForEachHref(n.depHrefs, 1, loadedHrefs, task, <<>>)
       IN  /\ n.depsLoaded.st # "pending"
           /\ IF n.depsLoaded.st = "ok"
              THEN /\ task' = [r.task EXCEPT ![t].pc = "kids",
                                             ![t].kids = r.depMetadata]
                   /\ loadedHrefs' = r.loaded
              ELSE /\ task' = [task EXCEPT ![t].pc = "failed",
                                           ![t].err = n.depsLoaded.err]
                   /\ loadedHrefs' = loadedHrefs
    /\ UNCHANGED <<heap, called, failures, domModule>>
    /\ EngineUnchanged

\* lines 227-229: Promise.all(depMetadata).then sets imports and href
TaskImports(t) ==
    /\ task[t].pc = "kids"
    /\ LET kids == task[t].kids
           bad == {k \in 1..Len(kids) : EntryState(task, kids[k]).st = "err"}
       IN  \/ /\ \A k \in 1..Len(kids) : EntryState(task, kids[k]).st = "ok"
              /\ task' = [task EXCEPT ![t].pc = "html"]
              /\ heap' = [heap EXCEPT ![task[t].obj] =
                            AssembleNode(@, [k \in 1..Len(kids) |->
                                                EntryValue(task, kids[k])],
                                         TaskDoc(t))]
           \/ /\ \E k \in bad :
                    task' = [task EXCEPT ![t].pc = "failed",
                                         ![t].err = EntryState(task, kids[k]).err]
              /\ heap' = heap
    /\ UNCHANGED <<loadedHrefs, called, failures, domModule>>
    /\ EngineUnchanged

\* lines 230-238: htmlMonomer.htmlLoaded.then sets html, binds the
\* dom-modules of the document to the elements of metadata, and returns
\* metadata
TaskHtml(t) ==
    /\ task[t].pc = "html"
    /\ heap' = [heap EXCEPT ![task[t].obj].html = TaskDoc(t)]
    /\ \E r \in {AttachAll(domModule, TaskDoc(t), ElementsOf(task[t].obj), 1)} :
          /\ domModule' = r.dm
          /\ IF r.err = NoErr
             THEN /\ task' = [task EXCEPT ![t].pc = "done"]
                  /\ failures' = failures
             ELSE /\ task' = [task EXCEPT ![t].pc = "failed", ![t].err = r.err]
                  /\ failures' = failures \cup {r.err}
    /\ UNCHANGED <<loadedHrefs, called>>
    /\ EngineUnchanged

Next ==
    \/ \E d \in Addrs, i \in 1..MaxRootLinks, ok \in BOOLEAN : FetchDoc(d, i, ok)
    \/ \E f \in sfetch, ok \in BOOLEAN : FetchScript(f, ok)
    \/ MetadataTree
    \/ \E t \in TaskIds : TaskStart(t)
    \/ \E t \in TaskIds : TaskMetadata(t)
    \/ \E t \in TaskIds : TaskDeps(t)
    \/ \E t \in TaskIds : TaskImports(t)
    \/ \E t \in TaskIds : TaskHtml(t)

Spec == Init /\ [][Next]_vars

\* the loader settles every request it was given, and the job queue runs
\* every promise reaction that is ready; metadataTree() is the caller's to
\* make or not
LoaderStep ==
    \/ \E d \in Addrs, i \in 1..MaxRootLinks, ok \in BOOLEAN : FetchDoc(d, i, ok)
    \/ \E f \in sfetch, ok \in BOOLEAN : FetchScript(f, ok)
ReactionStep ==
    \/ \E t \in TaskIds : TaskStart(t)
    \/ \E t \in TaskIds : TaskMetadata(t)
    \/ \E t \in TaskIds : TaskDeps(t)
    \/ \E t \in TaskIds : TaskImports(t)
    \/ \E t \in TaskIds : TaskHtml(t)
FairSpec ==
    /\ InitIn(LiveWorlds)
    /\ [][Next]_vars
    /\ WF_vars(LoaderStep)
    /\ WF_vars(ReactionStep)

(* ------------------------- derived observations ------------------------ *)
\* the elements and modules of metadata object o (the aggregate of the
\* document it was made for, or the shared EMPTY_METADATA)
Aggregate(o) ==
    IF o = EMPTY THEN EMPTY_METADATA
    ELSE ReduceList(node[o].script, Len(node[o].script))

\* the future returned by metadataTree()
TreeState == EntryState(task, "root")
TreeSettled == called /\ TreeState.st # "pending"
TreeResolved == called /\ TreeState.st = "ok"

\* nothing is left to run: every loader request has settled and every
\* promise callback that could run has run
Quiescent == ~ENABLED Next

\* the resolved import addresses of document d, as written in its text
Imports(d) == DepHrefs(d, world.doc[d].links, 1)
ImportsOf(d, b) == \E i \in 1..Len(Imports(d)) : Imports(d)[i] = b

\* root document A imports B and B imports A
CycleAB == world.loader /\ ImportsOf("A", "B") /\ ImportsOf("B", "A")

\* the tasks whose subtree build has resolved, and the node each returned
Built == {t \in TaskIds : task[t].pc = "done"}
NodeOf(t) == heap[task[t].obj]

\* no document shares the EMPTY_METADATA object: each has a script
NoSharedMetadata == \A d \in Addrs : MetadataObject(d) # EMPTY

(* ------------------------------ claims --------------------------------- *)

\* C1: with a loader whose every fetch succeeds, when root A imports B and
\* B imports A, the future returned by metadataTree() settles: once
\* nothing is left to run, the future is not pending.
C1_CycleBuildSettles ==
    (CycleAB /\ called /\ nfail = 0 /\ Quiescent) => TreeSettled

\* C2: when root A imports B and B imports A, metadataTree() builds a tree
\* that has B expanded under A, and in B's imports the entry for A is the
\* empty placeholder.
C2_CycleTreeShape ==
    (CycleAB /\ called /\ failures = {} /\ Quiescent) =>
        /\ TreeResolved
        /\ \E i \in 1..Len(Imports("A")) :
             LET b == NodeOf("root").imports[i]
             IN  /\ Imports("A")[i] = "B"
                 /\ b # PH
                 /\ heap[b].href = "B"
                 /\ \A j \in 1..Len(Imports("B")) :
                      Imports("B")[j] = "A" => heap[b].imports[j] = PH

\* the imports list of the node built by task t has one entry per import
\* link with an href, and entry i is a placeholder or the node of link i
ImportsInLinkOrder(t) ==
    LET hrefs == Imports(TaskDoc(t))
        im == NodeOf(t).imports
    IN  /\ NodeOf(t).hasImports
        /\ Len(im) = Len(hrefs)
        /\ \A i \in 1..Len(hrefs) : im[i] = PH \/ heap[im[i]].href = hrefs[i]

\* C3: for every document of a built tree and every fetch completion order,
\* the node's imports list has one entry per import link carrying an href,
\* entry i being the expanded node of link i's address or a placeholder.
C3_ImportsInLinkOrder ==
    (world.loader /\ TreeResolved) => \A t \in Built : ImportsInLinkOrder(t)

\* link j of document d repeats the address of link i, its first occurrence
Repeats(d, i, j) ==
    /\ i < j
    /\ Imports(d)[i] = Imports(d)[j]
    /\ \A k \in 1..(i - 1) : Imports(d)[k] # Imports(d)[i]

\* node o is the fully expanded subtree of address h
Expanded(o, h) ==
    /\ o # PH
    /\ heap[o].href = h
    /\ heap[o].html = h
    /\ heap[o].hasImports
    /\ Len(heap[o].imports) = Len(Imports(h))

\* C4: when one document declares two import links that resolve to the same
\* address, its node's imports list has the fully expanded subtree of that
\* address at the first link and the empty placeholder at the second.
C4_SecondOccurrenceIsPlaceholder ==
    (world.loader /\ TreeResolved) =>
        \A i, j \in 1..Len(Imports(Root)) :
            Repeats(Root, i, j) =>
                /\ Expanded(NodeOf("root").imports[i], Imports(Root)[i])
                /\ NodeOf("root").imports[j] = PH

\* what C3 and C4 say, for documents that each have a metadata object of
\* their own
Lemma_ImportsInLinkOrder == NoSharedMetadata => C3_ImportsInLinkOrder
Lemma_SecondOccurrence == NoSharedMetadata => C4_SecondOccurrenceIsPlaceholder
Witness_SecondOccurrence ==
    /\ NoSharedMetadata /\ TreeResolved
    /\ \E i, j \in 1..Len(Imports(Root)) : Repeats(Root, i, j)

\* the first position of names whose name is in reg or occurs earlier in
\* names; 0 when there is none
FirstDup(reg, names) ==
    LET dup == {i \in 1..Len(names) :
                  \/ names[i] \in DOMAIN reg
                  \/ \E k \in 1..(i - 1) : names[k] = names[i]}
    IN  IF dup = {} THEN 0 ELSE CHOOSE i \in dup : \A k \in dup : i <= k

\* the registry keeps every entry it had
Keeps(before, after) ==
    \A n \in DOMAIN before : n \in DOMAIN after /\ after[n] = before[n]

\* a processed script that returned an element whose name was registered
\* failed with the duplicate-definition failure naming it, and no entry of
\* the registry changed
ElementEventOk(ev) ==
    LET k == FirstDup(ev.elementsBefore, ev.js.elements)
    IN  /\ (~ev.js.throws /\ ev.js.hasElements /\ k > 0) =>
               ev.err = Err("DuplicateElement", ev.js.elements[k])
        /\ Keeps(ev.elementsBefore, ev.elementsAfter)

\* C5: across one engine instance an element name is entered in the element
\* registry at most once: a script returning an element whose name is
\* registered fails with a duplicate-definition failure naming it, and no
\* step ever changes an entry of the registry.
C5_ElementRegisteredOnce ==
    /\ [](\A i \in 1..Len(last) : ElementEventOk(last[i]))
    /\ [][Keeps(elements, elements')]_vars

Witness_DuplicateElement ==
    \E i \in 1..Len(last) :
        /\ last[i].err.kind = "DuplicateElement"
        /\ elements[last[i].err.at].doc # last[i].doc

\* the script of an event is an inline script whose processing reached the
\* registration of its modules
ReachesModules(ev) ==
    /\ world.doc[ev.doc].scripts[ev.idx].src = NoSrc
    /\ ~ev.js.throws
    /\ ev.js.hasModules
    /\ Len(ev.js.modules) > 0
    /\ ev.js.hasElements => FirstDup(ev.elementsBefore, ev.js.elements) = 0

\* C6: processing an inline script whose parse result contains modules
\* registers every module whose name is not yet registered without failing,
\* and fails with a duplicate-definition failure naming the identifier
\* exactly when that module name is already registered.
C6_ModulesRegistered ==
    \A i \in 1..Len(last) :
        LET ev == last[i]
            k == FirstDup(ev.modulesBefore, ev.js.modules)
        IN  ReachesModules(ev) =>
                IF k = 0
                THEN /\ ev.err = NoErr
                     /\ \A m \in 1..Len(ev.js.modules) :
                          ev.js.modules[m] \in DOMAIN ev.modulesAfter
                ELSE ev.err = Err("DuplicateModule", ev.js.modules[k])

\* C7: any failure in the reachable import graph makes the future of
\* metadataTree() fail with such a failure: the future never resolves when
\* a failure was raised, a rejected future carries a raised failure, and
\* once nothing is left to run a raised failure has rejected it.
C7_FailurePropagates ==
    /\ TreeResolved => failures = {}
    /\ (called /\ TreeState.st = "err") => TreeState.err \in failures
    /\ (called /\ Quiescent /\ failures # {}) => TreeState.st = "err"

Witness_NestedFailure ==
    /\ called /\ TreeState.st = "err"
    /\ TreeState.err.kind \in {"DocParse", "Loader", "DuplicateElement"}
    /\ TreeState.err.at # Root
    /\ Cardinality(html) > 1

\* C8: each distinct resolved address is parsed at most once per engine
\* instance, for any import graph and any fetch completion order.
C8_ParsedAtMostOnce == \A d \in Addrs : parses[d] <= 1

\* C9: the loader's request operation is invoked at most once per distinct
\* resolved document address over a whole resolution.
C9_RequestedAtMostOnce == \A d \in Addrs : requests[d] <= 1

\* the root document has no import links and no scripts
BareRoot == Len(world.doc[Root].links) = 0 /\ Len(world.doc[Root].scripts) = 0

\* C10: for a root document with no import links and no scripts,
\* metadataTree() resolves to a node with elements = [], modules = [],
\* imports = [], href the root address and the root's parsed structure.
C10_BareRootNode ==
    BareRoot =>
        /\ (called /\ Quiescent) => TreeResolved
        /\ TreeResolved =>
              /\ Aggregate(task["root"].obj).elements = <<>>
              /\ Aggregate(task["root"].obj).modules = <<>>
              /\ NodeOf("root").hasImports
              /\ NodeOf("root").imports = <<>>
              /\ NodeOf("root").href = Root
              /\ NodeOf("root").html = Root

Witness_BareRootBuilt == BareRoot /\ TreeResolved

\* script j of document d references external content
External(d, j) == world.doc[d].scripts[j].src # NoSrc

\* the registry has no entry made by script j of document d
RegistersNothing(reg, d, j) ==
    \A n \in DOMAIN reg : reg[n] # [doc |-> d, idx |-> j]

\* C11: without a loader, an external script of the root document
\* contributes no elements and no modules to the aggregate, registers
\* nothing, and does not make the metadata or the build fail: a root whose
\* scripts are all external is constructed without failure, and whenever
\* the root is constructed its metadata is resolved and the build succeeds.
C11_NoLoaderExternalScript ==
    ~world.loader =>
        /\ (\A j \in 1..Len(world.doc[Root].scripts) : External(Root, j)) =>
               ctor = "ok"
        /\ ctor = "ok" =>
            /\ failures = {}
            /\ node[Root].metadataLoaded.st = "ok"
            /\ called => TreeState.st # "err"
            /\ (called /\ Quiescent) => TreeResolved
            /\ \A j \in 1..Len(world.doc[Root].scripts) : External(Root, j) =>
                  /\ node[Root].script[j].st = "ok"
                  /\ ReduceList(node[Root].script, j) =
                         ReduceList(node[Root].script, j - 1)
                  /\ RegistersNothing(elements, Root, j)
                  /\ RegistersNothing(modules, Root, j)

Witness_NoLoaderExternalBuilt ==
    /\ ~world.loader /\ TreeResolved
    /\ \E j, k \in 1..Len(world.doc[Root].scripts) :
          /\ External(Root, j) /\ ~External(Root, k)
          /\ Aggregate(Root).elements # <<>>

\* C12: without a loader, resolving the root issues no fetch and creates no
\* node other than the root's; the root's depsLoaded resolves to the empty
\* list whatever import links it declares, and the built tree's imports
\* list is empty.
C12_NoLoaderNoDependencies ==
    ~world.loader =>
        /\ \A d \in Addrs : requests[d] = 0
        /\ sfetch = {}
        /\ html \subseteq {Root}
        /\ ctor = "ok" =>
              /\ html = {Root}
              /\ node[Root].depsLoaded.st = "ok"
              /\ node[Root].depHrefs = <<>>
        /\ TreeResolved =>
              /\ NodeOf("root").hasImports
              /\ NodeOf("root").imports = <<>>
              /\ Built = {"root"}

Witness_NoLoaderLinksIgnored ==
    /\ ~world.loader /\ TreeResolved
    /\ Len(Imports(Root)) = MaxLinks

\* the dom-modules of document d whose id attribute is name
Matching(d, name) ==
    {i \in 1..Len(world.doc[d].templates) : world.doc[d].templates[i] = name}

\* element object el of document d is bound as the scan of d's dom-modules
\* prescribes: to the first one with its name, or not at all
BoundToOwnFirst(d, el) ==
    IF Matching(d, el.is) = {}
    THEN el \notin DOMAIN domModule
    ELSE /\ el \in DOMAIN domModule
         /\ domModule[el].doc = d
         /\ \A i \in Matching(d, el.is) : domModule[el].idx <= i
         /\ domModule[el].idx \in Matching(d, el.is)

\* C13: after a successful build every element of a document's own
\* aggregate is bound to the first dom-module of that same document whose
\* id equals the element's name, or left unbound when the document has no
\* such dom-module; dom-modules of other documents are never bound to it.
C13_ElementBoundToOwnTemplate ==
    TreeResolved =>
        \A d \in html :
            LET els == ElementList(d, node[d].script, Len(node[d].script))
            IN  \A k \in 1..Len(els) :
                    els[k].is # Undefined => BoundToOwnFirst(d, els[k])

\* a build in which one element took the first of two dom-modules of its
\* name, and another element stayed unbound although the other document
\* has a dom-module of its name
Witness_TemplateBound ==
    /\ TreeResolved
    /\ \E el \in DOMAIN domModule :
          /\ domModule[el].idx = 1
          /\ Cardinality(Matching(el.doc, el.is)) = 2
    /\ \E d, o \in html :
          LET els == ElementList(d, node[d].script, Len(node[d].script))
          IN  \E k \in 1..Len(els) :
                /\ d # o
                /\ els[k] \notin DOMAIN domModule
                /\ Matching(o, els[k].is) # {}

\* the subtree build of task t has started: _metadataTree was called for
\* it (a task that failed because the entry it was chained after failed
\* never started)
Started(t) ==
    \/ task[t].pc \in {"meta", "deps", "kids", "html", "done"}
    \/ task[t].pc = "failed" /\ EntryState(task, task[t].pred).st # "err"
Completed(t) == task[t].pc \in {"done", "failed"}

\* C14: within one document's tree node the subtree builds of its expanded
\* import addresses run one after another in declared order: a later one
\* has not started while an earlier one has not completed, also when a
\* placeholder entry lies between them.
C14_SubtreeBuildsSerial ==
    \A t \in TaskIds :
        \A i, j \in 1..Len(task[t].kids) :
            (i < j /\ task[t].kids[i] # PH /\ task[t].kids[j] # PH
                   /\ Started(task[t].kids[j])) =>
                Completed(task[t].kids[i])

\* the same for two expanded addresses with no placeholder between them
Lemma_AdjacentBuildsSerial ==
    \A t \in TaskIds :
        \A i, j \in 1..Len(task[t].kids) :
            (i < j /\ (\A k \in i..j : task[t].kids[k] # PH)
                   /\ Started(task[t].kids[j])) =>
                Completed(task[t].kids[i])

\* the depth-first walk of the import graph in declared order, from link i
\* of document d on: the addresses reached and the occurrences (document,
\* link position) at which an address is met for the first time
RECURSIVE DepthFirst(_, _, _)
DepthFirst(d, i, acc) ==
    IF i > Len(Imports(d)) THEN acc
    ELSE LET h == Imports(d)[i]
         IN  IF h \in acc.reached THEN DepthFirst(d, i + 1, acc)
             ELSE DepthFirst(d, i + 1,
                      DepthFirst(h, 1, [reached |-> acc.reached \cup {h},
                                        first |-> acc.first \cup {<<d, i>>}]))
FirstOccurrences == DepthFirst(Root, 1, [reached |-> {Root}, first |-> {}]).first

\* C15: in one build the occurrence of an import address that is expanded
\* is the first one met when the import graph is walked depth-first in
\* declared order, and every other occurrence is the empty placeholder.
C15_DepthFirstExpansion ==
    (world.loader /\ TreeResolved) =>
        \A t \in Built :
            \A i \in 1..Len(task[t].kids) :
                task[t].kids[i] # PH <=> <<TaskDoc(t), i>> \in FirstOccurrences

\* what the forEach of one document does hold to: of the occurrences of an
\* address within one import list, the first is expanded or none is
Lemma_FirstInListExpanded ==
    (world.loader /\ TreeResolved) =>
        \A t \in Built :
            \A i, j \in 1..Len(task[t].kids) :
                (i < j /\ Imports(TaskDoc(t))[i] = Imports(TaskDoc(t))[j]) =>
                    task[t].kids[j] = PH

\* the import links of document d that carry an href, resolved against d,
\* in link order
OwnImportAddresses(d) ==
    LET ls == SelectSeq(world.doc[d].links, LAMBDA l : l # NoHref)
    IN  [i \in 1..Len(ls) |-> urlResolve(d, ls[i])]

\* no request for an external script of the node of d is in flight
NoScriptInFlight(d) ==
    \A f \in sfetch : ~(f.doc = d /\ f.inst = node[d].inst)

\* C16: with a loader, a document's depsLoaded is resolved only when its
\* metadataLoaded is resolved, every fetch of its import links and of its
\* external scripts has completed, and the depsLoaded of every imported
\* document is resolved; its value is the list of the document's own
\* resolved import addresses in link order, duplicates included.
C16_DepsReadyAfterNested ==
    world.loader =>
        \A d \in html :
            node[d].depsLoaded.st = "ok" =>
                /\ node[d].metadataLoaded.st = "ok"
                /\ NoScriptInFlight(d)
                /\ node[d].depHrefs = OwnImportAddresses(d)
                /\ \A i \in 1..Len(node[d].link) :
                      /\ node[d].link[i].st = "adopt"
                      /\ node[d].depHrefs[i] \in html
                      /\ node[node[d].depHrefs[i]].depsLoaded.st = "ok"

\* the root's depsLoaded resolved to a list with a repeated address whose
\* document has an import of its own, which is not in the list
Witness_DepsReadyOwnList ==
    /\ world.loader
    /\ node[Root].depsLoaded.st = "ok"
    /\ \E i, j \in 1..Len(node[Root].depHrefs) :
          /\ i < j
          /\ node[Root].depHrefs[i] = node[Root].depHrefs[j]
          /\ \E k \in 1..Len(node[node[Root].depHrefs[i]].depHrefs) :
                \A m \in 1..Len(node[Root].depHrefs) :
                    node[Root].depHrefs[m] # node[node[Root].depHrefs[i]].depHrefs[k]

\* what script j of document d returns to the aggregate: the lists of its
\* parse result, none for a list the result lacks, and nothing at all for
\* an external script when no loader is set
ScriptElements(d, j) ==
    LET sc == world.doc[d].scripts[j]
    IN  IF (sc.src # NoSrc /\ ~world.loader) \/ ~sc.js.hasElements THEN <<>>
        ELSE sc.js.elements
ScriptModules(d, j) ==
    LET sc == world.doc[d].scripts[j]
    IN  IF (sc.src # NoSrc /\ ~world.loader) \/ ~sc.js.hasModules THEN <<>>
        ELSE sc.js.modules

RECURSIVE ConcatElements(_, _)
ConcatElements(d, k) ==
    IF k = 0 THEN <<>> ELSE ConcatElements(d, k - 1) \o ScriptElements(d, k)
RECURSIVE ConcatModules(_, _)
ConcatModules(d, k) ==
    IF k = 0 THEN <<>> ELSE ConcatModules(d, k - 1) \o ScriptModules(d, k)

AggregateIsConcatenation(d) ==
    LET a == Aggregate(MetadataObject(d))
    IN  /\ a.elements = ConcatElements(d, Len(world.doc[d].scripts))
        /\ a.modules = ConcatModules(d, Len(world.doc[d].scripts))

\* C17: a document's resolved metadata aggregate has as elements the
\* concatenation, in script order, of the elements returned for each of
\* its scripts, and likewise for modules; a script whose parse result has
\* no elements (or no modules) list contributes none.
C17_AggregateIsConcatenation ==
    \A d \in html :
        node[d].metadataLoaded.st = "ok" => AggregateIsConcatenation(d)

\* every script of document d has an elements and a modules list
ListsPresent(d) ==
    \A j \in 1..Len(world.doc[d].scripts) :
        /\ world.doc[d].scripts[j].js.hasElements
        /\ world.doc[d].scripts[j].js.hasModules

\* the same for documents whose scripts all return both lists
Lemma_AggregateOfFullResults ==
    \A d \in html :
        (node[d].metadataLoaded.st = "ok" /\ ListsPresent(d)) =>
            AggregateIsConcatenation(d)

\* the node built by task t carries the href, the structure and as many
\* imports as the document it was built for
CarriesOwnFields(t) ==
    /\ NodeOf(t).href = TaskDoc(t)
    /\ NodeOf(t).html = TaskDoc(t)
    /\ NodeOf(t).hasImports
    /\ Len(NodeOf(t).imports) = Len(node[TaskDoc(t)].depHrefs)

\* C18: in the tree of a successful metadataTree() every expanded node
\* carries the href, structure and imports list of its own document, and
\* the nodes of two different documents are distinct objects.
C18_NodesDistinct ==
    TreeResolved =>
        /\ \A t \in Built : CarriesOwnFields(t)
        /\ \A t, u \in Built : t # u => task[t].obj # task[u].obj

\* the same for documents that each have a script
Lemma_NodesDistinctWithScripts == NoSharedMetadata => C18_NodesDistinct

\* C19: whenever the tree builder descends into an import address taken
\* from a resolved depsLoaded list, this.html already holds the node of
\* that address: every queued or started subtree build is for a registered
\* address, and the lookup this.html[href] never yields undefined.
C19_DescendsIntoRegistered ==
    /\ \A t \in Addrs : task[t].pc # "none" => t \in html
    /\ Err("TypeError", "htmlMonomer") \notin failures

\* a subtree build that itself descended into an import has completed
Witness_NestedDescent ==
    \E t, u \in Addrs :
        /\ task[t].pc = "done"
        /\ \E i \in 1..Len(task[t].kids) : task[t].kids[i] = u
        /\ task[u].pc = "done"

\* the import graph the engine walks: the addresses a document imports,
\* and what is reached from a set of addresses in one or more steps
Edges(d) ==
    IF world.loader THEN {Imports(d)[i] : i \in 1..Len(Imports(d))} ELSE {}
RECURSIVE ReachedFrom(_, _)
ReachedFrom(S, k) ==
    IF k = 0 THEN S
    ELSE ReachedFrom(S \cup UNION {Edges(d) : d \in S}, k - 1)
Reachable == ReachedFrom({Root}, Cardinality(Addrs))
Acyclic ==
    \A d \in Reachable : d \notin ReachedFrom(Edges(d), Cardinality(Addrs))

\* a request for a document or for an external script is in flight
FetchOutstanding ==
    \/ sfetch # {}
    \/ \E d \in html : \E i \in 1..Len(node[d].link) : node[d].link[i].st = "fetch"

\* C20: for an acyclic import graph, when the loader settles every request
\* and every ready reaction runs, the future returned by metadataTree()
\* eventually settles, whatever order the fetches complete in; and it is
\* never resolved while a fetch of a document or of an external script is
\* outstanding.
C20_AcyclicBuildSettles ==
    /\ (Acyclic /\ called) ~> TreeSettled
    /\ [](TreeResolved => ~FetchOutstanding)

\* an acyclic graph over all three documents whose build has settled
Witness_AcyclicSettled ==
    /\ world.loader /\ Acyclic /\ TreeSettled
    /\ html = Addrs

=============================================================================
